---- MODULE Spec2Model ----
(***************************************************************************)
(* Model of the toolboxer `portown` command (src/src/commands/portown.rs): *)
(* main -> execute -> netstat, the line parser with its filters and row    *)
(* cap, the process identity resolver with its process-wide cache, and the *)
(* table renderer.                                                         *)
(*                                                                         *)
(* A line of netstat output is a sequence of chunks: a chunk is either a   *)
(* run of whitespace (WS) or a whitespace-free token.  A path is the       *)
(* sequence of its backslash-separated components.                         *)
(***************************************************************************)
EXTENDS Integers, Sequences, FiniteSets, TLC

\* ------------------------------------------------------------------ bounds
MaxLines == 2      \* lines of netstat output
MaxDepth == 2      \* largest configured row cap (args.depth)
MaxCalls == 4      \* get_process_info calls in one resolver session

\* --------------------------------------------------------------- constants
WS == " "
Unknown == "Unknown"
NUL == "\\0"

\* ------------------------------------------------------------------ inputs
\* Lines the enumeration tool may print.
Lines ==
  { <<"Active", WS, "Connections">>,
    <<WS, "TCP", WS, "0.0.0.0:135", WS, "0.0.0.0:0", WS, "LISTENING", WS, "672">>,
    <<WS, "TCP", WS, "10.0.0.5:5000", WS, "1.2.3.4:443", WS, "ESTABLISHED", WS, "1288">>,
    <<WS, "UDP", WS, "0.0.0.0:500", WS, "*:*", WS, "1288">>,
    <<WS, "UDP", WS, "0.0.0.0:500", WS, "*:*", WS, "LISTENING", WS, "672">>,
    <<WS, "TCP", WS, "0.0.0.0:135", WS, "0.0.0.0:0", WS, "LISTENING", WS, "abc">>,
    <<WS, "TCP", WS, "0.0.0.0:135", WS, "LISTENING">>,
    <<WS, "UDP", WS, "0.0.0.0:500", WS, "*:*">>,
    <<WS, "UDP", WS, "0.0.0.0:500", WS, "TCP", WS, "1288">>,
    <<WS, "UDP", WS, "0.0.0.0:500", WS, "*:*", WS, "TCP", WS, "672">> }

RECURSIVE SeqsUpTo(_, _)
SeqsUpTo(S, n) ==
  IF n = 0 THEN { <<>> }
  ELSE LET shorter == SeqsUpTo(S, n - 1)
       IN  shorter \cup { Append(s, x) : s \in { t \in shorter : Len(t) = n - 1 }, x \in S }

\* netstat_output.lines()
Outputs == SeqsUpTo(Lines, MaxLines)

NoDepth == [some |-> FALSE, v |-> 0]
SomeDepth(n) == [some |-> TRUE, v |-> n]
Depths == { NoDepth } \cup { SomeDepth(n) : n \in 0..MaxDepth }

\* PortownArgs as read by execute
ArgsSet ==
  [ tcp_only : BOOLEAN, udp_only : BOOLEAN, listen : BOOLEAN,
    established_only : BOOLEAN, depth : Depths ]

Stderrs == { "", "netstat: access denied" }
SpawnErrors == { "program not found" }

\* ------------------------------------------------------------ parser parts
\* str::contains on a line, for a marker without whitespace
Contains(line, marker) == \E i \in DOMAIN line : line[i] = marker

IsToken(c) == c # WS

\* str::split_whitespace().collect()
split_whitespace(line) == SelectSeq(line, IsToken)

min_columns(line) == IF Contains(line, "TCP") THEN 5 ELSE 4

protocol(line) == IF Contains(line, "TCP") THEN "TCP" ELSE "UDP"

local_address(parts) == parts[2]

foreign_address(parts) == parts[3]

state(line, parts) == IF Contains(line, "TCP") THEN parts[4] ELSE "-"

\* the pid read from the state column for every protocol
pid_fixed_column(line, parts) == parts[4]

pid(line, parts) == IF Contains(line, "TCP") THEN parts[5] ELSE parts[4]

\* the three marker tests at the top of the loop body
PassesMarkerTests(args, line) ==
  /\ ~(args.udp_only /\ ~Contains(line, "UDP"))
  /\ ~(args.tcp_only /\ ~Contains(line, "TCP"))
  /\ (Contains(line, "TCP") \/ Contains(line, "UDP"))

HasMinColumns(line) == Len(split_whitespace(line)) >= min_columns(line)

\* the state filters without the established-only test
PassesStateFilter_listen_only(args, st) == ~(args.listen /\ st # "LISTENING")

PassesStateFilter(args, st) ==
  /\ ~(args.listen /\ st # "LISTENING")
  /\ ~(args.established_only /\ st # "ESTABLISHED")

\* TRUE iff the loop body reaches connections.push for this line
Pushes(args, line) ==
  /\ PassesMarkerTests(args, line)
  /\ HasMinColumns(line)
  /\ PassesStateFilter(args, state(line, split_whitespace(line)))

\* the tuple pushed for a line
Connection(line) ==
  LET parts == split_whitespace(line)
  IN  [ protocol |-> protocol(line),
        local_address |-> local_address(parts),
        foreign_address |-> foreign_address(parts),
        state |-> state(line, parts),
        pid |-> pid(line, parts) ]

\* the row-cap test with a strict comparison
DepthReached_strict(args, depth) == args.depth.some /\ depth > args.depth.v

\* the row-cap test at the top of the loop body
DepthReached(args, depth) == args.depth.some /\ depth >= args.depth.v

\* ---------------------------------------------------------- resolver parts
\* ProcessIdentity values are pairs <<name, path>>; both are component sequences
UnknownInfo == << <<Unknown>>, <<Unknown>> >>

\* image files a live process may run
Images == { <<"C:", "Windows", "svchost.exe">>, <<"System">> }

\* decimal strings among the tokens, with their values (str::parse::<DWORD>)
Decimal == ("672" :> 672) @@ ("1288" :> 1288)

\* a parse failure falling back to the id of a live process
pid_num_live_default(p) == IF p \in DOMAIN Decimal THEN Decimal[p] ELSE 672

\* let pid_num: DWORD = pid.parse().unwrap_or(0)
pid_num(p) == IF p \in DOMAIN Decimal THEN Decimal[p] ELSE 0

\* What the operating system answers during one lookup:
\*   token, luid  OpenProcessToken / LookupPrivilegeValueA succeed
\*   open         OpenProcess returns a non-null handle
\*   image        the image of the process behind the handle
\*   name, path   QueryFullProcessImageNameA / GetModuleFileNameExA succeed
\* OpenProcess never opens process id 0 (the System Idle Process).  When the
\* open fails no query is made, so the other fields take one fixed value.
OsAnswers(num) ==
  { o \in [ token : BOOLEAN, luid : BOOLEAN, open : BOOLEAN, image : Images,
            name : BOOLEAN, path : BOOLEAN ] :
      /\ (num = 0 => ~o.open)
      /\ (~o.token => ~o.luid)
      /\ (~o.open => (o.image = <<"System">> /\ ~o.name /\ ~o.path)) }

\* `cache.insert(key, value)` on a HashMap
Insert(cache, key, value) ==
  [ k \in DOMAIN cache \cup {key} |-> IF k = key THEN value ELSE cache[k] ]

\* `cache.get(pid)` at the top of get_process_info is Some
CacheHit(cache, p) == p \in DOMAIN cache

\* name.rfind('\\'): index of the last separator, 0 for None
rfind_backslash(image) == Len(image) - 1

\* the process name derived from the full image path
ProcessName(o) ==
  IF o.name
  THEN IF rfind_backslash(o.image) # 0
       THEN SubSeq(o.image, rfind_backslash(o.image) + 1, Len(o.image))
       ELSE o.image
  ELSE <<Unknown>>

\* the process path: the whole 260-byte buffer, lossily converted
ProcessPath(o) == IF o.path THEN Append(o.image, NUL) ELSE <<Unknown>>

\* the failed-open branch without its cache update
CacheAfterOpenFailure_no_insert(cache, p) == cache

\* the cache after the failed-open branch
CacheAfterOpenFailure(cache, p) == Insert(cache, p, UnknownInfo)

\* the success path without its cache update
CacheAfterQueries_no_insert(cache, p, o) == cache

\* the cache after both queries
CacheAfterQueries(cache, p, o) == Insert(cache, p, <<ProcessName(o), ProcessPath(o)>>)

\* get_process_info(pid): the returned Result, the cache afterwards, and the
\* operating-system calls made on the way
get_process_info(cache, p, o) ==
  IF CacheHit(cache, p)
  THEN [ ret |-> [tag |-> "Ok", info |-> cache[p]], cache |-> cache,
         elevations |-> 0, opens |-> 0, queries |-> 0 ]
  ELSE IF ~o.open
  THEN [ ret |-> [tag |-> "Ok", info |-> UnknownInfo],
         cache |-> CacheAfterOpenFailure(cache, p),
         elevations |-> 1, opens |-> 1, queries |-> 0 ]
  ELSE [ ret |-> [tag |-> "Ok", info |-> <<ProcessName(o), ProcessPath(o)>>],
         cache |-> CacheAfterQueries(cache, p, o),
         elevations |-> 1, opens |-> 1, queries |-> 2 ]

\* ------------------------------------------------------------ result values
NoResult == [tag |-> "None", variant |-> "", message |-> "", detail |-> ""]
OkResult == [tag |-> "Ok", variant |-> "", message |-> "", detail |-> ""]
Err(variant, message, detail) ==
  [tag |-> "Err", variant |-> variant, message |-> message, detail |-> detail]

NoArgs ==
  [tcp_only |-> FALSE, udp_only |-> FALSE, listen |-> FALSE, established_only |-> FALSE,
   depth |-> NoDepth]

NoNetstat == [status |-> "none", stdout |-> <<>>, stderr |-> "", error |-> ""]

\* every string the parser can store as a record's pid
PidStrings ==
  { Connection(l).pid :
      l \in { m \in Lines : (Contains(m, "TCP") \/ Contains(m, "UDP")) /\ HasMinColumns(m) } }

NoCall == [pid |-> "", tag |-> "None", info |-> UnknownInfo, hit |-> FALSE, failed |-> FALSE]

EmptyMap == [k \in {} |-> UnknownInfo]

\* ------------------------------------------------------------------- state
VARIABLES
  pc,             \* position of main / execute
  args,           \* PortownArgs
  netstat,        \* result of Command::new("netstat").output()
  current_depth,  \* lines consumed by the parse loop
  connections,    \* Vec of parsed tuples
  origins,        \* per parsed tuple: the number of the line it was parsed from
  unique_pids,    \* distinct pids not yet visited by the resolve loop
  pid_cache,      \* execute's local HashMap
  PROCESS_CACHE,  \* the process-wide cache
  lookups,        \* per pid string: OpenProcess calls issued so far
  elevations,     \* privilege elevation attempts so far
  first_info,     \* per pid string: the identity of its first resolution
  degraded,       \* pid strings whose lookup failed
  last_call,      \* the latest get_process_info call and its result
  calls,          \* get_process_info calls so far
  stdout,         \* what was written to standard output
  idx,            \* rows handed to print_connection
  result,         \* what execute returned
  exit_status     \* exit status of the process

coreVars ==
  << pc, args, netstat, current_depth, connections, origins, unique_pids, pid_cache,
     PROCESS_CACHE, lookups, elevations, first_info, degraded, last_call, calls, stdout,
     idx, result, exit_status >>

parserVars == << current_depth, connections, origins >>
resolverVars ==
  << PROCESS_CACHE, lookups, elevations, first_info, degraded, last_call, calls >>
outVars == << stdout, idx >>

\* state of the renderer's two functions, step by step
VARIABLES
  rpc,            \* "idle", "running" (inside print_header / print_connection), "returned"
  rops,           \* the terminal operations of the running function, in program order
  rpos,           \* the operation to run next
  color,          \* the terminal's current ColorSpec
  fresh,          \* the color was set or reset since the last write
  term,           \* what was written, each piece with the color it was written in
  rret,           \* what the function returned
  rcalls          \* calls of the two functions completed so far

rendererVars == << rpc, rops, rpos, color, fresh, term, rret, rcalls >>

\* state of one get_process_info call, step by step
VARIABLES
  lpc,            \* position inside get_process_info
  lpid,           \* its argument
  los,            \* what the operating system answers during this call
  token,          \* the token handle: "none", "open" or "closed"
  process_handle, \* the process handle: "none" (null), "open" or "closed"
  closes,         \* CloseHandle calls of this call, per handle
  misuse,         \* a handle was passed to the system while not open
  lname,          \* local `name`
  lpath,          \* local `path`
  lret,           \* the returned Result
  lcalls          \* calls completed so far

lookupVars ==
  << lpc, lpid, los, token, process_handle, closes, misuse, lname, lpath, lret, lcalls >>

\* state of one run of the tree command
VARIABLES
  tpc,            \* position inside tree's execute: "start", "print", "done"
  fs,             \* the directory structure under args.path
  config,         \* the Config main builds from TreeArgs
  entries,        \* `entries` of execute: the collected walk
  frames,         \* the print_entry activations: the entries each still has to print
  tout,           \* what println! has written, one record per line
  tresult         \* what execute returned

treeVars == << tpc, fs, config, entries, frames, tout, tresult >>

vars == << coreVars, rendererVars, lookupVars, treeVars >>

\* the variables the portown run does not touch
otherVars == << rendererVars, lookupVars, treeVars >>

\* the variables the renderer's functions do not touch
nonRendererVars == << coreVars, lookupVars, treeVars >>

\* the variables the tree command does not touch
nonTreeVars == << coreVars, rendererVars, lookupVars >>

Default == [fg |-> "None", bg |-> "None", bold |-> FALSE]

InitRenderer ==
  /\ rpc = "idle"
  /\ rops = <<>>
  /\ rpos = 1
  /\ color = Default
  /\ fresh = TRUE
  /\ term = <<>>
  /\ rret = "None"
  /\ rcalls = 0

NoAnswer ==
  [token |-> FALSE, luid |-> FALSE, open |-> FALSE, image |-> <<"System">>,
   name |-> FALSE, path |-> FALSE]

NoReturn == [tag |-> "None", info |-> UnknownInfo]

InitLookup ==
  /\ lpc = "idle"
  /\ lpid = ""
  /\ los = NoAnswer
  /\ token = "none"
  /\ process_handle = "none"
  /\ closes = [token |-> 0, process_handle |-> 0]
  /\ misuse = FALSE
  /\ lname = <<Unknown>>
  /\ lpath = <<Unknown>>
  /\ lret = NoReturn
  /\ lcalls = 0

NoPattern == [some |-> FALSE, v |-> <<>>]
SomePattern(p) == [some |-> TRUE, v |-> p]

\* Config::new(root)
DefaultConfig ==
  [max_depth |-> NoDepth, show_hidden |-> FALSE, sort_by |-> "Name", pattern |-> NoPattern]

NoFs == [dirs |-> {}, files |-> {}]

InitTree ==
  /\ tpc = "idle"
  /\ fs = NoFs
  /\ config = DefaultConfig
  /\ entries = <<>>
  /\ frames = <<>>
  /\ tout = <<>>
  /\ tresult = NoResult

InitOther == InitRenderer /\ InitLookup /\ InitTree

InitCommon ==
  /\ netstat = NoNetstat
  /\ current_depth = 0
  /\ connections = <<>>
  /\ origins = <<>>
  /\ unique_pids = {}
  /\ pid_cache = EmptyMap
  /\ PROCESS_CACHE = EmptyMap
  /\ lookups = [p \in PidStrings |-> 0]
  /\ elevations = 0
  /\ first_info = EmptyMap
  /\ degraded = {}
  /\ last_call = NoCall
  /\ calls = 0
  /\ stdout = <<>>
  /\ idx = 0
  /\ result = NoResult
  /\ exit_status = 0

InitCore == args = NoArgs /\ InitCommon

\* the process has parsed its command line and is about to call execute
Init ==
  /\ pc = "main"
  /\ args \in ArgsSet
  /\ InitCommon
  /\ InitOther

\* ------------------------------------------------------------- netstat call
NetstatSpawnFails ==
  /\ pc = "main"
  /\ \E e \in SpawnErrors :
       /\ netstat' = [status |-> "spawn_error", stdout |-> <<>>, stderr |-> "", error |-> e]
       /\ result' = Err("Other", "Failed to execute netstat: ", e)
  /\ pc' = "return"
  /\ UNCHANGED << args, parserVars, unique_pids, pid_cache, resolverVars, outVars, exit_status >>
  /\ UNCHANGED otherVars

NetstatExitsWithFailure ==
  /\ pc = "main"
  /\ \E e \in Stderrs :
       netstat' = [status |-> "failure", stdout |-> <<>>, stderr |-> e, error |-> ""]
  /\ result' = Err("Other", "netstat command failed", "")
  /\ pc' = "return"
  /\ UNCHANGED << args, parserVars, unique_pids, pid_cache, resolverVars, outVars, exit_status >>
  /\ UNCHANGED otherVars

NetstatSucceeds ==
  /\ pc = "main"
  /\ \E out \in Outputs :
       netstat' = [status |-> "success", stdout |-> out, stderr |-> "", error |-> ""]
  /\ pid_cache' = EmptyMap
  /\ connections' = <<>>
  /\ origins' = <<>>
  /\ current_depth' = 0
  /\ pc' = "parse"
  /\ UNCHANGED << args, unique_pids, resolverVars, outVars, result, exit_status >>
  /\ UNCHANGED otherVars

\* -------------------------------------------------------------- parse loop
\* the line the iterator yields next
NextLine == netstat.stdout[current_depth + 1]

\* the end of the parse loop going straight to the renderer
StartResolve_skips_resolver ==
  /\ unique_pids' = { connections[i].pid : i \in DOMAIN connections }
  /\ pc' = "header"

StartResolve ==
  /\ unique_pids' = { connections[i].pid : i \in DOMAIN connections }
  /\ pc' = "resolve"

LoopBreak ==
  /\ pc = "parse"
  /\ current_depth < Len(netstat.stdout)
  /\ DepthReached(args, current_depth)
  /\ StartResolve
  /\ UNCHANGED << args, netstat, parserVars, pid_cache, resolverVars, outVars, result, exit_status >>
  /\ UNCHANGED otherVars

LoopSkip ==
  /\ pc = "parse"
  /\ current_depth < Len(netstat.stdout)
  /\ ~DepthReached(args, current_depth)
  /\ ~Pushes(args, NextLine)
  /\ current_depth' = current_depth + 1
  /\ UNCHANGED << pc, args, netstat, connections, origins, unique_pids, pid_cache,
                  resolverVars, outVars, result, exit_status >>
  /\ UNCHANGED otherVars

LoopPush ==
  /\ pc = "parse"
  /\ current_depth < Len(netstat.stdout)
  /\ ~DepthReached(args, current_depth)
  /\ Pushes(args, NextLine)
  /\ current_depth' = current_depth + 1
  /\ connections' = Append(connections, Connection(NextLine))
  /\ origins' = Append(origins, current_depth + 1)
  /\ UNCHANGED << pc, args, netstat, unique_pids, pid_cache, resolverVars, outVars,
                  result, exit_status >>
  /\ UNCHANGED otherVars

LoopEnd ==
  /\ pc = "parse"
  /\ current_depth = Len(netstat.stdout)
  /\ StartResolve
  /\ UNCHANGED << args, netstat, parserVars, pid_cache, resolverVars, outVars, result, exit_status >>
  /\ UNCHANGED otherVars

\* ------------------------------------------------------------ resolve loop
\* the call went to the operating system, and the process could not be opened or
\* neither query gave data
LookupFailed(r, o) == r.opens # 0 /\ (~o.open \/ (~o.name /\ ~o.path))

\* one call of get_process_info(p) with the operating system answering o
Call(p, o) ==
  LET r == get_process_info(PROCESS_CACHE, p, o)
  IN  /\ PROCESS_CACHE' = r.cache
      /\ lookups' = [lookups EXCEPT ![p] = @ + r.opens]
      /\ elevations' = elevations + r.elevations
      /\ first_info' = IF p \in DOMAIN first_info THEN first_info
                       ELSE Insert(first_info, p, r.ret.info)
      /\ degraded' = IF LookupFailed(r, o) THEN degraded \cup {p} ELSE degraded
      /\ last_call' = [pid |-> p, tag |-> r.ret.tag, info |-> r.ret.info,
                       hit |-> (r.opens = 0), failed |-> LookupFailed(r, o)]
      /\ calls' = calls + 1

ResolvePid ==
  /\ pc = "resolve"
  /\ \E p \in unique_pids :
       /\ unique_pids' = unique_pids \ {p}
       /\ IF p \notin DOMAIN pid_cache
          THEN \E o \in OsAnswers(pid_num(p)) :
                 /\ Call(p, o)
                 /\ pid_cache' =
                      Insert(pid_cache, p,
                             IF last_call'.tag = "Ok" THEN last_call'.info ELSE UnknownInfo)
          ELSE UNCHANGED << pid_cache, resolverVars >>
  /\ UNCHANGED << pc, args, netstat, parserVars, outVars, result, exit_status >>
  /\ UNCHANGED otherVars

ResolveDone ==
  /\ pc = "resolve"
  /\ unique_pids = {}
  /\ pc' = "header"
  /\ UNCHANGED << args, netstat, parserVars, unique_pids, pid_cache, resolverVars, outVars,
                  result, exit_status >>
  /\ UNCHANGED otherVars

\* ---------------------------------------------------------------- renderer
Header == [kind |-> "header"]
Separator == [kind |-> "separator"]

\* the rows taken from the end of the vector
Row_reversed(i) ==
  LET c == connections[Len(connections) + 1 - i]
      info == IF c.pid \in DOMAIN pid_cache THEN pid_cache[c.pid] ELSE UnknownInfo
  IN  [ kind |-> "row", protocol |-> c.protocol, local_address |-> c.local_address,
        foreign_address |-> c.foreign_address, state |-> c.state, pid |-> c.pid,
        name |-> info[1], path |-> info[2], tinted |-> ((i - 1) % 2 # 0) ]

\* the line print_connection writes for connections[i] (i counts from 1)
Row(i) ==
  LET c == connections[i]
      info == IF c.pid \in DOMAIN pid_cache THEN pid_cache[c.pid] ELSE UnknownInfo
  IN  [ kind |-> "row", protocol |-> c.protocol, local_address |-> c.local_address,
        foreign_address |-> c.foreign_address, state |-> c.state, pid |-> c.pid,
        name |-> info[1], path |-> info[2], tinted |-> ((i - 1) % 2 # 0) ]

PrintHeader ==
  /\ pc = "header"
  /\ \E ok \in BOOLEAN :
       IF ok
       THEN /\ stdout' = stdout \o << Header, Separator >>
            /\ pc' = "rows"
            /\ UNCHANGED result
       ELSE /\ result' = Err("Io", "IO error: ", "write failed")
            /\ pc' = "return"
            /\ UNCHANGED stdout
  /\ UNCHANGED << args, netstat, parserVars, unique_pids, pid_cache, resolverVars, idx,
                  exit_status >>
  /\ UNCHANGED otherVars

PrintConnection ==
  /\ pc = "rows"
  /\ idx < Len(connections)
  /\ \E ok \in BOOLEAN :
       IF ok
       THEN /\ stdout' = Append(stdout, Row(idx + 1))
            /\ idx' = idx + 1
            /\ UNCHANGED << pc, result >>
       ELSE /\ result' = Err("Io", "IO error: ", "write failed")
            /\ pc' = "return"
            /\ UNCHANGED << stdout, idx >>
  /\ UNCHANGED << args, netstat, parserVars, unique_pids, pid_cache, resolverVars, exit_status >>
  /\ UNCHANGED otherVars

ExecuteReturnsOk ==
  /\ pc = "rows"
  /\ idx = Len(connections)
  /\ result' = OkResult
  /\ pc' = "return"
  /\ UNCHANGED << args, netstat, parserVars, unique_pids, pid_cache, resolverVars, outVars,
                  exit_status >>
  /\ UNCHANGED otherVars

\* -------------------------------------------------------------------- main
\* a main that drops execute's result
ExitStatus_ignore_result(r) == 0

\* the exit status of a main that returns r
ExitStatus(r) == IF r.tag = "Ok" THEN 0 ELSE 1

MainReturns ==
  /\ pc = "return"
  /\ exit_status' = ExitStatus(result)
  /\ pc' = "exited"
  /\ UNCHANGED << args, netstat, parserVars, unique_pids, pid_cache, resolverVars, outVars,
                  result >>
  /\ UNCHANGED otherVars

Next ==
  \/ NetstatSpawnFails
  \/ NetstatExitsWithFailure
  \/ NetstatSucceeds
  \/ LoopBreak
  \/ LoopSkip
  \/ LoopPush
  \/ LoopEnd
  \/ ResolvePid
  \/ ResolveDone
  \/ PrintHeader
  \/ PrintConnection
  \/ ExecuteReturnsOk
  \/ MainReturns

Spec == Init /\ [][Next]_vars

\* ------------------------------------------------- the resolver on its own
\* A process that calls get_process_info any number of times, for any pid
\* strings in any order, as repeated executions of the command do.
InitResolver ==
  /\ pc = "resolver"
  /\ args = NoArgs
  /\ InitCommon
  /\ InitOther

GetProcessInfoCall ==
  /\ pc = "resolver"
  /\ calls < MaxCalls
  /\ \E p \in PidStrings : \E o \in OsAnswers(pid_num(p)) : Call(p, o)
  /\ UNCHANGED << pc, args, netstat, parserVars, unique_pids, pid_cache, outVars, result,
                  exit_status >>
  /\ UNCHANGED otherVars

NextResolver == GetProcessInfoCall

SpecResolver == InitResolver /\ [][NextResolver]_vars

\* ------------------------------------------- the renderer, step by step
MaxRows == 2       \* rows printed in one renderer session

\* rows print_connection may be asked to print: the protocol and state words
\* that select the colors, and the row's background tint
RowProtocols == {"TCP", "UDP", "RAW"}
RowStates == {"LISTENING", "ESTABLISHED", "CLOSE_WAIT", "TIME_WAIT", "-"}
RowTints == {"None", "Ansi256(236)"}
Jobs == [protocol : RowProtocols, state : RowStates, bg_color : RowTints]

ColorSpec(fg, bg, bold) == [fg |-> fg, bg |-> bg, bold |-> bold]

protocol_color(proto) ==
  CASE proto = "TCP" -> "Green"
    [] proto = "UDP" -> "Yellow"
    [] OTHER -> "White"

state_color(st) ==
  CASE st = "LISTENING" -> "Yellow"
    [] st = "ESTABLISHED" -> "Green"
    [] st = "CLOSE_WAIT" -> "Red"
    [] st = "TIME_WAIT" -> "Magenta"
    [] OTHER -> "White"

SetColor(spec) == [op |-> "set_color", spec |-> spec, text |-> ""]
Write(text) == [op |-> "write", spec |-> Default, text |-> text]
Reset == [op |-> "reset", spec |-> Default, text |-> ""]

\* print_header, as the sequence of its terminal operations
print_header == << SetColor(ColorSpec("White", "None", TRUE)), Write("header"), Reset,
                   Write("separator") >>

\* print_connection without the reset before it returns
print_connection_no_reset(job) ==
  (IF job.bg_color # "None" THEN << SetColor(ColorSpec("None", job.bg_color, FALSE)) >>
   ELSE <<>>)
  \o << SetColor(ColorSpec(protocol_color(job.protocol), job.bg_color, TRUE)),
        Write("protocol"),
        SetColor(ColorSpec("Cyan", job.bg_color, FALSE)), Write("local_addr"),
        SetColor(ColorSpec("Blue", job.bg_color, FALSE)), Write("foreign_addr"),
        SetColor(ColorSpec(state_color(job.state), job.bg_color, FALSE)), Write("state"),
        SetColor(ColorSpec("White", job.bg_color, FALSE)), Write("pid"),
        SetColor(ColorSpec("Yellow", job.bg_color, FALSE)), Write("proc_name"),
        SetColor(ColorSpec("White", job.bg_color, FALSE)), Write("proc_path") >>

\* print_connection, as the sequence of its terminal operations
print_connection(job) ==
  (IF job.bg_color # "None" THEN << SetColor(ColorSpec("None", job.bg_color, FALSE)) >>
   ELSE <<>>)
  \o << SetColor(ColorSpec(protocol_color(job.protocol), job.bg_color, TRUE)),
        Write("protocol"),
        SetColor(ColorSpec("Cyan", job.bg_color, FALSE)), Write("local_addr"),
        SetColor(ColorSpec("Blue", job.bg_color, FALSE)), Write("foreign_addr"),
        SetColor(ColorSpec(state_color(job.state), job.bg_color, FALSE)), Write("state"),
        SetColor(ColorSpec("White", job.bg_color, FALSE)), Write("pid"),
        SetColor(ColorSpec("Yellow", job.bg_color, FALSE)), Write("proc_name"),
        SetColor(ColorSpec("White", job.bg_color, FALSE)), Write("proc_path"),
        Reset >>

\* execute calls print_header first
CallPrintHeader ==
  /\ rpc = "idle"
  /\ rcalls = 0
  /\ rops' = print_header
  /\ rpos' = 1
  /\ rpc' = "running"
  /\ rret' = "None"
  /\ UNCHANGED << color, fresh, term, rcalls >>
  /\ UNCHANGED nonRendererVars

\* then print_connection, once per row
CallPrintConnection ==
  /\ rpc = "idle"
  /\ rcalls >= 1
  /\ rcalls <= MaxRows
  /\ \E job \in Jobs : rops' = print_connection(job)
  /\ rpos' = 1
  /\ rpc' = "running"
  /\ rret' = "None"
  /\ UNCHANGED << color, fresh, term, rcalls >>
  /\ UNCHANGED nonRendererVars

Running == rpc = "running" /\ rpos <= Len(rops)

\* stdout.set_color(spec)?: a ColorSpec::new() has reset enabled, so the
\* attributes set before are cleared and the new ones applied
StepSetColor ==
  /\ Running
  /\ rops[rpos].op = "set_color"
  /\ color' = rops[rpos].spec
  /\ fresh' = TRUE
  /\ rpos' = rpos + 1
  /\ UNCHANGED << rpc, rops, term, rret, rcalls >>
  /\ UNCHANGED nonRendererVars

\* write!(..)? / writeln!(..)?
StepWrite ==
  /\ Running
  /\ rops[rpos].op = "write"
  /\ term' = Append(term, [text |-> rops[rpos].text, color |-> color, stale |-> ~fresh])
  /\ fresh' = FALSE
  /\ rpos' = rpos + 1
  /\ UNCHANGED << rpc, rops, color, rret, rcalls >>
  /\ UNCHANGED nonRendererVars

\* stdout.reset()?
StepReset ==
  /\ Running
  /\ rops[rpos].op = "reset"
  /\ color' = Default
  /\ fresh' = TRUE
  /\ rpos' = rpos + 1
  /\ UNCHANGED << rpc, rops, term, rret, rcalls >>
  /\ UNCHANGED nonRendererVars

\* the operation returns an io::Error and `?` returns it at once
StepFails ==
  /\ Running
  /\ rret' = "Err"
  /\ rpc' = "returned"
  /\ UNCHANGED << rops, rpos, color, fresh, term, rcalls >>
  /\ UNCHANGED nonRendererVars

\* Ok(()) at the end of the function
ReturnOk ==
  /\ rpc = "running"
  /\ rpos > Len(rops)
  /\ rret' = "Ok"
  /\ rpc' = "returned"
  /\ UNCHANGED << rops, rpos, color, fresh, term, rcalls >>
  /\ UNCHANGED nonRendererVars

\* execute goes on to the next row after an Ok
NextRow ==
  /\ rpc = "returned"
  /\ rret = "Ok"
  /\ rpc' = "idle"
  /\ rcalls' = rcalls + 1
  /\ UNCHANGED << rops, rpos, color, fresh, term, rret >>
  /\ UNCHANGED nonRendererVars

InitRendering ==
  /\ pc = "renderer"
  /\ InitCore
  /\ InitOther

NextRenderer ==
  \/ CallPrintHeader
  \/ CallPrintConnection
  \/ StepSetColor
  \/ StepWrite
  \/ StepReset
  \/ StepFails
  \/ ReturnOk
  \/ NextRow

SpecRenderer == InitRendering /\ [][NextRenderer]_vars

\* ------------------------------------ get_process_info, step by step
MaxLookups == 2    \* get_process_info calls in one step-by-step session

\* the caller-visible state a step leaves alone
lookupFrame ==
  << pc, args, netstat, parserVars, unique_pids, pid_cache, first_info, degraded,
     last_call, calls, outVars, result, exit_status, rendererVars, treeVars >>

\* passing handle h (in state st) to a system call
Misused(st) == st # "open"

\* a failed LookupPrivilegeValueA going on without closing the token
AfterLookupPrivilege_leaks_token(ok) == IF ok THEN "adjust" ELSE "open_process"

\* where the privilege block goes after LookupPrivilegeValueA
AfterLookupPrivilege(ok) == IF ok THEN "adjust" ELSE "close_token"

\* get_process_info(pid) is entered
LookupCall ==
  /\ lpc = "idle"
  /\ lcalls < MaxLookups
  /\ \E p \in PidStrings : \E o \in OsAnswers(pid_num(p)) :
       /\ lpid' = p
       /\ los' = o
  /\ lpc' = "check_cache"
  /\ token' = "none"
  /\ process_handle' = "none"
  /\ closes' = [token |-> 0, process_handle |-> 0]
  /\ lname' = <<Unknown>>
  /\ lpath' = <<Unknown>>
  /\ lret' = NoReturn
  /\ UNCHANGED << misuse, lcalls, PROCESS_CACHE, lookups, elevations >>
  /\ UNCHANGED lookupFrame

\* the cache holds the pid: return the cached identity
LookupCacheHit ==
  /\ lpc = "check_cache"
  /\ CacheHit(PROCESS_CACHE, lpid)
  /\ lret' = [tag |-> "Ok", info |-> PROCESS_CACHE[lpid]]
  /\ lpc' = "returned"
  /\ UNCHANGED << lpid, los, token, process_handle, closes, misuse, lname, lpath, lcalls,
                  PROCESS_CACHE, lookups, elevations >>
  /\ UNCHANGED lookupFrame

\* cache miss: OpenProcessToken(GetCurrentProcess(), .., &mut token)
LookupOpenToken ==
  /\ lpc = "check_cache"
  /\ ~CacheHit(PROCESS_CACHE, lpid)
  /\ elevations' = elevations + 1
  /\ IF los.token
     THEN token' = "open" /\ lpc' = "lookup_privilege"
     ELSE token' = token /\ lpc' = "open_process"
  /\ UNCHANGED << lpid, los, process_handle, closes, misuse, lname, lpath, lret, lcalls,
                  PROCESS_CACHE, lookups >>
  /\ UNCHANGED lookupFrame

\* LookupPrivilegeValueA(null, SE_DEBUG_NAME, &mut luid)
LookupPrivilegeValue ==
  /\ lpc = "lookup_privilege"
  /\ lpc' = AfterLookupPrivilege(los.luid)
  /\ UNCHANGED << lpid, los, token, process_handle, closes, misuse, lname, lpath, lret,
                  lcalls, PROCESS_CACHE, lookups, elevations >>
  /\ UNCHANGED lookupFrame

\* AdjustTokenPrivileges(token, ..): its result is dropped
LookupAdjustPrivileges ==
  /\ lpc = "adjust"
  /\ misuse' = (misuse \/ Misused(token))
  /\ lpc' = "close_token"
  /\ UNCHANGED << lpid, los, token, process_handle, closes, lname, lpath, lret, lcalls,
                  PROCESS_CACHE, lookups, elevations >>
  /\ UNCHANGED lookupFrame

\* CloseHandle(token)
LookupCloseToken ==
  /\ lpc = "close_token"
  /\ misuse' = (misuse \/ Misused(token))
  /\ token' = "closed"
  /\ closes' = [closes EXCEPT !.token = @ + 1]
  /\ lpc' = "open_process"
  /\ UNCHANGED << lpid, los, process_handle, lname, lpath, lret, lcalls, PROCESS_CACHE,
                  lookups, elevations >>
  /\ UNCHANGED lookupFrame

\* OpenProcess(PROCESS_QUERY_LIMITED_INFORMATION, FALSE, pid_num) gives a handle
LookupOpenProcess ==
  /\ lpc = "open_process"
  /\ los.open
  /\ process_handle' = "open"
  /\ lookups' = [lookups EXCEPT ![lpid] = @ + 1]
  /\ lpc' = "query_name"
  /\ UNCHANGED << lpid, los, token, closes, misuse, lname, lpath, lret, lcalls,
                  PROCESS_CACHE, elevations >>
  /\ UNCHANGED lookupFrame

\* OpenProcess gives null: cache the Unknown identity and return it
LookupOpenProcessFails ==
  /\ lpc = "open_process"
  /\ ~los.open
  /\ lookups' = [lookups EXCEPT ![lpid] = @ + 1]
  /\ PROCESS_CACHE' = CacheAfterOpenFailure(PROCESS_CACHE, lpid)
  /\ lret' = [tag |-> "Ok", info |-> UnknownInfo]
  /\ lpc' = "returned"
  /\ UNCHANGED << lpid, los, token, process_handle, closes, misuse, lname, lpath, lcalls,
                  elevations >>
  /\ UNCHANGED lookupFrame

\* QueryFullProcessImageNameA(process_handle, ..)
LookupQueryName ==
  /\ lpc = "query_name"
  /\ misuse' = (misuse \/ Misused(process_handle))
  /\ lname' = ProcessName(los)
  /\ lpc' = "query_path"
  /\ UNCHANGED << lpid, los, token, process_handle, closes, lpath, lret, lcalls,
                  PROCESS_CACHE, lookups, elevations >>
  /\ UNCHANGED lookupFrame

\* GetModuleFileNameExA(process_handle, ..)
LookupQueryPath ==
  /\ lpc = "query_path"
  /\ misuse' = (misuse \/ Misused(process_handle))
  /\ lpath' = ProcessPath(los)
  /\ lpc' = "close_process"
  /\ UNCHANGED << lpid, los, token, process_handle, closes, lname, lret, lcalls,
                  PROCESS_CACHE, lookups, elevations >>
  /\ UNCHANGED lookupFrame

\* CloseHandle(process_handle)
LookupCloseProcess ==
  /\ lpc = "close_process"
  /\ misuse' = (misuse \/ Misused(process_handle))
  /\ process_handle' = "closed"
  /\ closes' = [closes EXCEPT !.process_handle = @ + 1]
  /\ lpc' = "update_cache"
  /\ UNCHANGED << lpid, los, token, lname, lpath, lret, lcalls, PROCESS_CACHE, lookups,
                  elevations >>
  /\ UNCHANGED lookupFrame

\* cache.insert(pid, (name, path)); Ok((name, path))
LookupUpdateCache ==
  /\ lpc = "update_cache"
  /\ PROCESS_CACHE' = Insert(PROCESS_CACHE, lpid, <<lname, lpath>>)
  /\ lret' = [tag |-> "Ok", info |-> <<lname, lpath>>]
  /\ lpc' = "returned"
  /\ UNCHANGED << lpid, los, token, process_handle, closes, misuse, lname, lpath, lcalls,
                  lookups, elevations >>
  /\ UNCHANGED lookupFrame

\* the caller takes the result
LookupReturn ==
  /\ lpc = "returned"
  /\ lpc' = "idle"
  /\ lcalls' = lcalls + 1
  /\ UNCHANGED << lpid, los, token, process_handle, closes, misuse, lname, lpath, lret,
                  PROCESS_CACHE, lookups, elevations >>
  /\ UNCHANGED lookupFrame

InitLookups ==
  /\ pc = "lookup"
  /\ InitCore
  /\ InitOther

NextLookup ==
  \/ LookupCall
  \/ LookupCacheHit
  \/ LookupOpenToken
  \/ LookupPrivilegeValue
  \/ LookupAdjustPrivileges
  \/ LookupCloseToken
  \/ LookupOpenProcess
  \/ LookupOpenProcessFails
  \/ LookupQueryName
  \/ LookupQueryPath
  \/ LookupCloseProcess
  \/ LookupUpdateCache
  \/ LookupReturn

SpecLookup == InitLookups /\ [][NextLookup]_vars

\* ------------------------------------------------------- the tree command
MaxEntries == 3      \* entries below the root directory
MaxTreeDepth == 2    \* largest --max-depth drawn

\* file names in the order the file system lists them; ".b" carries the
\* hidden attribute
DirOrder == << <<".", "b">>, <<"a">> >>

Names == { DirOrder[i] : i \in DOMAIN DirOrder }

\* args.path, by default "."
RootName == <<".">>

\* the sets of paths below the root with at most n entries, each entry's
\* parent present
RECURSIVE Shapes(_)
Shapes(n) ==
  IF n = 0 THEN { {} }
  ELSE LET smaller == Shapes(n - 1)
       IN  smaller \cup
           UNION { { t \cup { Append(q, x) } : q \in t \cup { <<>> }, x \in Names } :
                   t \in smaller }

Leaves(t) == { q \in t : \A x \in Names : Append(q, x) \notin t }

\* the directory structures: the root is a directory, an entry with
\* children is a directory, a leaf is a file or an empty directory
FileSystems ==
  UNION { { [dirs |-> (t \ f) \cup { <<>> }, files |-> f] : f \in SUBSET Leaves(t) } :
          t \in Shapes(MaxEntries) }

TreeDepths == { NoDepth } \cup { SomeDepth(n) : n \in 0..MaxTreeDepth }

Patterns == { NoPattern, SomePattern(<<".">>) }

\* the Config main builds: max_depth, all, sort_type, filter
Configs ==
  [ max_depth : TreeDepths, show_hidden : BOOLEAN, sort_by : {"Name", "Type"},
    pattern : Patterns ]

\* str::contains
str_contains(text, pattern) ==
  \E i \in 1..(Len(text) - Len(pattern) + 1) :
    SubSeq(text, i, i + Len(pattern) - 1) = pattern

\* DirEntry::file_name (walkdir: the whole path when it has no file name)
file_name(path) == IF path = <<>> THEN RootName ELSE path[Len(path)]

\* utils::is_hidden: Path::file_name() of "." is None
is_hidden(path) == IF path = <<>> THEN FALSE ELSE file_name(path)[1] = "."

\* DirEntry::file_type().is_dir()
is_dir(f, path) == path \in f.dirs

\* DirEntry::from_path: the first entry of a new walk rooted at the path
from_path(path) == [path |-> path, depth |-> 0]

filter_entry(entry, cfg) ==
  IF ~cfg.show_hidden /\ is_hidden(entry.path) THEN FALSE
  ELSE IF cfg.pattern.some THEN str_contains(file_name(entry.path), cfg.pattern.v)
  ELSE TRUE

\* fs::read_dir(path): the paths of the directory's entries
read_dir(f, path) ==
  LET all == [i \in DOMAIN DirOrder |-> Append(path, DirOrder[i])]
      Exists(q) == q \in f.dirs \cup f.files
  IN  SelectSeq(all, Exists)

RECURSIVE Flatten(_)
Flatten(ss) == IF ss = <<>> THEN <<>> ELSE Head(ss) \o Flatten(Tail(ss))

\* WalkDir::new(root).max_depth(..).into_iter().filter_entry(..): pre-order,
\* a rejected directory is not descended into
RECURSIVE WalkDir(_, _, _, _)
WalkDir(f, cfg, path, depth) ==
  LET entry == [path |-> path, depth |-> depth]
      kids == read_dir(f, path)
  IN  IF ~filter_entry(entry, cfg) THEN <<>>
      ELSE IF is_dir(f, path) /\ (~cfg.max_depth.some \/ depth < cfg.max_depth.v)
      THEN <<entry>> \o
           Flatten([i \in DOMAIN kids |-> WalkDir(f, cfg, kids[i], depth + 1)])
      ELSE <<entry>>

\* sort_entries: Type is a stable sort on "is not a directory", Name keeps
\* the order
sort_entries(f, es, cfg) ==
  LET Dir(e) == is_dir(f, e.path)
      NotDir(e) == ~is_dir(f, e.path)
  IN  IF cfg.sort_by = "Type" THEN SelectSeq(es, Dir) \o SelectSeq(es, NotDir) ELSE es

\* `children` of print_entry
Children(f, cfg, path) ==
  LET kids == read_dir(f, path)
      all == [i \in DOMAIN kids |-> from_path(kids[i])]
      Keep(e) == filter_entry(e, cfg)
  IN  sort_entries(f, SelectSeq(all, Keep), cfg)

\* the entry the innermost print_entry loop is at
Top == frames[Len(frames)]

\* execute collects and sorts the walk
TreeWalk ==
  /\ tpc = "start"
  /\ entries' = sort_entries(fs, WalkDir(fs, config, <<>>, 0), config)
  /\ frames' = << entries' >>
  /\ tpc' = "print"
  /\ UNCHANGED << fs, config, tout, tresult >>
  /\ UNCHANGED nonTreeVars

\* print_entry of a file: one line
PrintEntryFile ==
  /\ tpc = "print"
  /\ frames # <<>> /\ Top # <<>>
  /\ ~is_dir(fs, Head(Top).path)
  /\ tout' = Append(tout, Head(Top))
  /\ frames' = [frames EXCEPT ![Len(frames)] = Tail(Top)]
  /\ UNCHANGED << tpc, fs, config, entries, tresult >>
  /\ UNCHANGED nonTreeVars

\* print_entry of a directory: one line, then its children, each by a
\* print_entry of its own
PrintEntryDir ==
  /\ tpc = "print"
  /\ frames # <<>> /\ Top # <<>>
  /\ is_dir(fs, Head(Top).path)
  /\ tout' = Append(tout, Head(Top))
  /\ frames' = Append([frames EXCEPT ![Len(frames)] = Tail(Top)],
                      Children(fs, config, Head(Top).path))
  /\ UNCHANGED << tpc, fs, config, entries, tresult >>
  /\ UNCHANGED nonTreeVars

\* print_entry of a directory whose fs::read_dir fails: the error goes up
\* through every `?` and out of execute
PrintEntryReadDirFails ==
  /\ tpc = "print"
  /\ frames # <<>> /\ Top # <<>>
  /\ is_dir(fs, Head(Top).path)
  /\ tout' = Append(tout, Head(Top))
  /\ frames' = <<>>
  /\ tresult' = Err("Io", "read_dir", "")
  /\ tpc' = "done"
  /\ UNCHANGED << fs, config, entries >>
  /\ UNCHANGED nonTreeVars

\* a print_entry has printed its last child and returns Ok(())
PrintEntryReturns ==
  /\ tpc = "print"
  /\ Len(frames) > 1 /\ Top = <<>>
  /\ frames' = SubSeq(frames, 1, Len(frames) - 1)
  /\ UNCHANGED << tpc, fs, config, entries, tout, tresult >>
  /\ UNCHANGED nonTreeVars

\* the loop of execute is over
TreeReturnsOk ==
  /\ tpc = "print"
  /\ Len(frames) = 1 /\ Top = <<>>
  /\ frames' = <<>>
  /\ tresult' = OkResult
  /\ tpc' = "done"
  /\ UNCHANGED << fs, config, entries, tout >>
  /\ UNCHANGED nonTreeVars

InitTrees ==
  /\ pc = "tree"
  /\ InitCore
  /\ InitRenderer
  /\ InitLookup
  /\ tpc = "start"
  /\ fs \in FileSystems
  /\ config \in Configs
  /\ entries = <<>>
  /\ frames = <<>>
  /\ tout = <<>>
  /\ tresult = NoResult

NextTree ==
  \/ TreeWalk
  \/ PrintEntryFile
  \/ PrintEntryDir
  \/ PrintEntryReadDirFails
  \/ PrintEntryReturns
  \/ TreeReturnsOk

SpecTree == InitTrees /\ [][NextTree]_vars

\* ------------------------------------------------------------ properties
\* the parse loop has finished on a successful netstat run
Parsed == netstat.status = "success" /\ pc \notin {"main", "parse"}

Min(a, b) == IF a <= b THEN a ELSE b

\* the whitespace-delimited fields of a line
Fields(line) == SelectSeq(line, LAMBDA c : c # WS)

\* a well-formed connection row: a protocol marker and enough fields for it
WellFormedRow(line) ==
  /\ Contains(line, "TCP") \/ Contains(line, "UDP")
  /\ Len(Fields(line)) >= (IF Contains(line, "TCP") THEN 5 ELSE 4)

\* the owner pid column of a well-formed row
PidField(line) == Fields(line)[IF Contains(line, "TCP") THEN 5 ELSE 4]

\* rows of an output that survive the protocol and state filters of a
SurvivingRows(a, out) == { i \in DOMAIN out : Pushes(a, out[i]) }

NoFilter ==
  [tcp_only |-> FALSE, udp_only |-> FALSE, listen |-> FALSE, established_only |-> FALSE,
   depth |-> NoDepth]

\* the records of an output under no filter and no cap
RECURSIVE Unfiltered(_)
Unfiltered(out) ==
  IF out = <<>> THEN <<>>
  ELSE IF Pushes(NoFilter, Head(out))
       THEN <<Connection(Head(out))>> \o Unfiltered(Tail(out))
       ELSE Unfiltered(Tail(out))

RECURSIVE IsSubsequence(_, _)
IsSubsequence(s, t) ==
  IF s = <<>> THEN TRUE
  ELSE IF t = <<>> THEN FALSE
  ELSE IF Head(s) = Head(t) THEN IsSubsequence(Tail(s), Tail(t))
  ELSE IsSubsequence(s, Tail(t))

\* C1: with a cap N configured, the number of records produced equals
\* min(N, number of rows that survive the protocol and state filters);
\* skipped lines do not count towards the cap.
RowCapCountsSurvivingRows ==
  (Parsed /\ args.depth.some) =>
    Len(connections) =
      Min(args.depth.v, Cardinality(SurvivingRows(args, netstat.stdout)))

\* C2: with tcp_only every produced record has protocol TCP, with udp_only
\* every produced record has protocol UDP (also for lines that hold both
\* markers), and the produced records are a subsequence of the records
\* produced with no filter.
ProtocolFilterSound ==
  Parsed =>
    /\ args.tcp_only => \A j \in DOMAIN connections : connections[j].protocol = "TCP"
    /\ args.udp_only => \A j \in DOMAIN connections : connections[j].protocol = "UDP"
    /\ IsSubsequence(connections, Unfiltered(netstat.stdout))

\* C3: with listening-only every produced record has state "LISTENING" (so
\* no UDP record is produced), with established-only every produced record
\* has state "ESTABLISHED", and a row the loop reads whose state equals the
\* requested marker and that passes the protocol filter is kept.
StateFilterSound ==
  Parsed =>
    /\ args.listen =>
         \A j \in DOMAIN connections :
           connections[j].state = "LISTENING" /\ connections[j].protocol # "UDP"
    /\ args.established_only =>
         \A j \in DOMAIN connections : connections[j].state = "ESTABLISHED"
    /\ \A i \in 1..current_depth :
         LET line == netstat.stdout[i]
             st == IF Contains(line, "TCP") THEN Fields(line)[4] ELSE "-"
         IN  ( /\ WellFormedRow(line)
               /\ args.tcp_only => Contains(line, "TCP")
               /\ args.udp_only => Contains(line, "UDP")
               /\ args.listen => st = "LISTENING"
               /\ args.established_only => st = "ESTABLISHED" )
             => \E j \in DOMAIN connections :
                  origins[j] = i /\ connections[j].state = st

\* a listening-only run kept a row and dropped a well-formed row for its state
StateFilterWitness ==
  /\ Parsed
  /\ args.listen /\ ~args.established_only /\ ~args.tcp_only /\ ~args.udp_only
  /\ connections # <<>>
  /\ \E i \in 1..current_depth :
       /\ WellFormedRow(netstat.stdout[i])
       /\ \A j \in DOMAIN origins : origins[j] # i

\* C4: with no filters and no cap, every line that contains "TCP" with at
\* least 5 fields, or contains "UDP" with at least 4, yields exactly one
\* record, every other line yields none, and the parse runs to the end.
ParsingComplete ==
  (Parsed /\ args = NoFilter) =>
    /\ current_depth = Len(netstat.stdout)
    /\ \A i \in DOMAIN netstat.stdout :
         LET line == netstat.stdout[i]
             qualifies == \/ Contains(line, "TCP") /\ Len(Fields(line)) >= 5
                          \/ Contains(line, "UDP") /\ Len(Fields(line)) >= 4
         IN  Cardinality({ j \in DOMAIN origins : origins[j] = i })
               = (IF qualifies THEN 1 ELSE 0)

\* C5: a TCP row yields local address = field 2, foreign address = field 3,
\* state = field 4 and PID = field 5 of its line; a UDP row yields local
\* address = field 2, foreign address = field 3, state = "-" and PID = field 4.
FieldExtraction ==
  \A j \in DOMAIN connections :
    LET c == connections[j]
        f == Fields(netstat.stdout[origins[j]])
    IN  /\ c.protocol \in {"TCP", "UDP"}
        /\ c.local_address = f[2]
        /\ c.foreign_address = f[3]
        /\ c.protocol = "TCP" => (c.state = f[4] /\ c.pid = f[5])
        /\ c.protocol = "UDP" => (c.state = "-" /\ c.pid = f[4])

\* a TCP row and a UDP row were parsed, the UDP line holding a state word
FieldExtractionWitness ==
  /\ \E j \in DOMAIN connections : connections[j].protocol = "TCP"
  /\ \E j \in DOMAIN connections :
       /\ connections[j].protocol = "UDP"
       /\ Contains(netstat.stdout[origins[j]], "LISTENING")

\* C6: over any sequence of get_process_info calls the operating-system
\* lookup is performed at most once per pid string, and every later
\* resolution of that pid returns the identity of the first one.
ResolverMemoization ==
  /\ \A p \in PidStrings : lookups[p] <= 1
  /\ \A p \in PidStrings : lookups[p] = 1 <=> p \in DOMAIN first_info
  /\ last_call.tag # "None" =>
       /\ last_call.pid \in DOMAIN first_info
       /\ last_call.info = first_info[last_call.pid]

\* a pid resolved to a real identity was asked for again and answered from
\* the cache
ResolverMemoizationWitness ==
  /\ last_call.hit
  /\ last_call.info # UnknownInfo
  /\ lookups[last_call.pid] = 1
  /\ calls >= 2

\* C7: a pid whose lookup fails or returns no data resolves to
\* ("Unknown","Unknown") and never to an error, the degraded identity is
\* stored in the cache, and the command still completes successfully.
ResolverDegradation ==
  /\ last_call.tag \in {"None", "Ok"}
  /\ last_call.failed => last_call.info = UnknownInfo
  /\ \A p \in degraded :
       /\ p \in DOMAIN PROCESS_CACHE /\ PROCESS_CACHE[p] = UnknownInfo
       /\ p \in DOMAIN pid_cache /\ pid_cache[p] = UnknownInfo
       /\ lookups[p] = 1
  /\ (pc \in {"return", "exited"} /\ degraded # {} /\ result.variant # "Io") =>
       result = OkResult
  /\ (pc = "exited" /\ degraded # {} /\ result.variant # "Io") => exit_status = 0

\* the command exited with success after the lookup of a numeric pid failed
ResolverDegradationWitness ==
  /\ pc = "exited"
  /\ exit_status = 0
  /\ \E p \in degraded : p \in DOMAIN Decimal

\* C8: a record whose pid field is not a parseable number is kept in the
\* output and rendered with the ("Unknown","Unknown") identity, whatever the
\* operating system answers for real processes.
UnparseablePidRendersUnknown ==
  /\ \A k \in DOMAIN stdout :
       (stdout[k].kind = "row" /\ stdout[k].pid \notin DOMAIN Decimal) =>
         (stdout[k].name = <<Unknown>> /\ stdout[k].path = <<Unknown>>)
  /\ (pc = "exited" /\ result = OkResult) =>
       \A i \in 1..current_depth :
         LET line == netstat.stdout[i]
         IN  (Pushes(args, line) /\ PidField(line) \notin DOMAIN Decimal)
             => \E j \in DOMAIN connections :
                  /\ origins[j] = i
                  /\ stdout[j + 2].kind = "row"
                  /\ stdout[j + 2].pid = PidField(line)

\* a table with a row of unparseable pid next to a row with a resolved name
UnparseablePidWitness ==
  /\ pc = "exited"
  /\ \E k \in DOMAIN stdout :
       stdout[k].kind = "row" /\ stdout[k].pid \notin DOMAIN Decimal
  /\ \E k \in DOMAIN stdout :
       stdout[k].kind = "row" /\ stdout[k].name # <<Unknown>>

\* C9: if netstat cannot be started or exits with a non-success status,
\* execute returns an error that carries the tool's stderr when there is
\* some, no identity lookup is issued and nothing is written.
EnumerationFailureCarriesStderr ==
  (pc \in {"return", "exited"} /\ netstat.status \in {"spawn_error", "failure"}) =>
    /\ result.tag = "Err"
    /\ netstat.stderr # "" => result.detail = netstat.stderr
    /\ calls = 0
    /\ stdout = <<>>

\* C10 as stated: the command fails only when the enumeration tool cannot be
\* run or exits with an error status.
ExitFailsOnlyOnEnumerationFailure ==
  pc = "exited" =>
    /\ (netstat.status = "success" /\ Len(stdout) = Len(connections) + 2) => exit_status = 0
    /\ exit_status # 0 => netstat.status \in {"spawn_error", "failure"}

\* C10 as amended: the command exits with status 0 exactly when the snapshot
\* is produced and the whole table is written, however many lookups degraded;
\* it fails only when the enumeration tool cannot be run or exits with an
\* error status, or when a write to standard output fails.
ExitBehaviour ==
  pc = "exited" =>
    /\ exit_status = 0 <=>
         (netstat.status = "success" /\ Len(stdout) = Len(connections) + 2)
    /\ exit_status # 0 =>
         (netstat.status \in {"spawn_error", "failure"} \/ result.variant = "Io")
    /\ exit_status \in {0, 1}

\* the command exited with status 0 although every lookup of a two-row table
\* degraded
ExitBehaviourWitness ==
  /\ pc = "exited"
  /\ exit_status = 0
  /\ Len(connections) = 2
  /\ Cardinality(degraded) = 2

\* C11: after the header line and the separator rule exactly one row is
\* written per connection record, in the parser's order; rows with the same
\* pid show the same name and path; the tint of the odd-indexed rows changes
\* neither order nor content.
TableRendering ==
  /\ Len(stdout) = (IF stdout = <<>> THEN 0 ELSE idx + 2)
  /\ stdout # <<>> => (stdout[1] = [kind |-> "header"] /\ stdout[2] = [kind |-> "separator"])
  /\ \A k \in 1..idx :
       LET r == stdout[k + 2]
           c == connections[k]
       IN  /\ r.kind = "row"
           /\ << r.protocol, r.local_address, r.foreign_address, r.state, r.pid >>
                = << c.protocol, c.local_address, c.foreign_address, c.state, c.pid >>
           /\ r.tinted = ((k - 1) % 2 = 1)
           /\ << r.name, r.path >> = PROCESS_CACHE[c.pid]
  /\ \A k, m \in 1..idx :
       stdout[k + 2].pid = stdout[m + 2].pid =>
         << stdout[k + 2].name, stdout[k + 2].path >>
           = << stdout[m + 2].name, stdout[m + 2].path >>
  /\ (pc \in {"return", "exited"} /\ result = OkResult) => idx = Len(connections)

\* a finished table of two different rows of one resolved pid, the second tinted
TableRenderingWitness ==
  /\ pc = "exited"
  /\ result = OkResult
  /\ idx = 2
  /\ connections[1] # connections[2]
  /\ stdout[3].pid = stdout[4].pid
  /\ stdout[4].name # <<Unknown>>
  /\ stdout[4].tinted /\ ~stdout[3].tinted

\* C13: a row cap of zero yields an empty record sequence for every netstat
\* output and every filter configuration: no record, no identity lookup, and
\* only the header and the separator are rendered.
CapZeroYieldsNothing ==
  (args.depth.some /\ args.depth.v = 0) =>
    /\ connections = <<>>
    /\ calls = 0 /\ elevations = 0
    /\ stdout \in { <<>>, << [kind |-> "header"], [kind |-> "separator"] >> }
    /\ (pc \in {"return", "exited"} /\ result = OkResult) => Len(stdout) = 2

\* a run with cap zero over an output holding a row that passes the filters
\* ended with the header and the separator only
CapZeroWitness ==
  /\ pc = "exited"
  /\ args.depth.some /\ args.depth.v = 0
  /\ Len(stdout) = 2
  /\ \E i \in DOMAIN netstat.stdout : Pushes(args, netstat.stdout[i])

\* in this state the parse loop has ended the way the code ends it
ParseLoopEnded ==
  \/ current_depth = Len(netstat.stdout)
  \/ (args.depth.some /\ current_depth >= args.depth.v)

\* C15: data flows Parser -> Resolver -> Renderer: the parse loop has ended
\* before the first identity lookup, the distinct pids are looked up one at
\* a time, each lookup completed before the next begins, and every lookup
\* has completed before the header is written.
PipelineOrder ==
  /\ [](calls > 0 => (Parsed /\ ParseLoopEnded))
  /\ [](stdout # <<>> =>
          /\ unique_pids = {}
          /\ \A j \in DOMAIN connections : connections[j].pid \in DOMAIN pid_cache)
  /\ [](pc \in {"header", "rows"} =>
          calls = Cardinality({ connections[j].pid : j \in DOMAIN connections }))
  /\ [][ /\ calls' \in {calls, calls + 1}
         /\ calls' = calls + 1 =>
              /\ pc = "resolve" /\ stdout' = <<>> /\ connections' = connections
              /\ last_call'.pid \in DOMAIN pid_cache' \ DOMAIN pid_cache
              /\ DOMAIN pid_cache' = DOMAIN pid_cache \cup {last_call'.pid}
         /\ stdout' # stdout => (calls' = calls /\ connections' = connections) ]_vars

\* two pids were looked up and the table is being written
PipelineOrderWitness ==
  /\ pc = "rows"
  /\ calls = 2
  /\ idx = 1

\* C16: the attempt to enable the debug privilege is made at most once per
\* process run and always before a process open, and a failed elevation
\* never turns a lookup into an error.
ElevationAtMostOnce ==
  /\ elevations <= 1
  /\ \A p \in PidStrings : lookups[p] > 0 => elevations > 0
  /\ last_call.tag # "Err"

NoHandleLeak ==
  /\ ~misuse
  /\ closes.token <= 1 /\ closes.process_handle <= 1
  /\ token = "closed" <=> closes.token = 1
  /\ process_handle = "closed" <=> closes.process_handle = 1
  /\ lpc = "returned" =>
       /\ token \in {"none", "closed"}
       /\ process_handle \in {"none", "closed"}

\* the step-by-step call returns what get_process_info is modelled to return
StepwiseAgrees ==
  lpc = "update_cache" =>
    <<lname, lpath>> = get_process_info(PROCESS_CACHE, lpid, los).ret.info

\* a call returned after a failed LookupPrivilegeValueA and a successful
\* open, both handles closed once
NoHandleLeakWitness ==
  /\ lpc = "returned"
  /\ los.token /\ ~los.luid /\ los.open
  /\ closes = [token |-> 1, process_handle |-> 1]

\* C14: when the tree command is run with a maximum depth D, no entry
\* located more than D levels below the root directory is displayed.
TreeMaxDepthRespected ==
  config.max_depth.some =>
    \A i \in DOMAIN tout : Len(tout[i].path) <= config.max_depth.v

\* C17: the tree command prints each visible file or directory at most
\* once.
TreeEntryPrintedOnce ==
  \A i, j \in DOMAIN tout : tout[i].path = tout[j].path => i = j

====
